---- MODULE Spec2Model ----
(***************************************************************************)
(* circom-scotia: a model of the library's three entry points              *)
(*   calculate_witness          (src/src/lib.rs 156-166)                    *)
(*   synthesize                 (src/src/lib.rs 186-252)                    *)
(*   generate_witness_from_wasm (src/src/lib.rs 85-124)                     *)
(* and of the signal-name hash fnv (src/src/witness/mod.rs 28-34).          *)
(*                                                                         *)
(* Each entry point has its own variables and its own specification; a      *)
(* specification leaves the variables of the other parts at their initial   *)
(* value.                                                                   *)
(***************************************************************************)
EXTENDS Integers, Sequences, FiniteSets, TLC

VARIABLES
    \* ---- calculate_witness: threads calling into guarded calculators ----
    pc,          \* pc[t]: where thread t is inside calculate_witness
    inst,        \* inst[t]: the instance (cfg) thread t's call is on
    holder,      \* holder[i]: the thread holding cfg.wtns of instance i, 0 = free
    poisoned,    \* poisoned[i]: the poison flag of the Mutex of instance i
    calcOut,     \* calcOut[t]: what the calculator returned to t's current call
    result,      \* result[t]: what calculate_witness returned to thread t
    ran,         \* ran[t]: the calculator was invoked during t's current call
    panickedOn,  \* panickedOn[i]: a thread panicked holding the guard of i
    \* ---- synthesize ----
    r1cs,        \* the R1CS argument
    witness,     \* the Option<Vec<F>> argument of the running call
    cs,          \* the constraint system (variables allocated, constraints enforced)
    svars_,      \* the local `vars`: the AllocatedNums in allocation order
    output,      \* the local `output`
    spc,         \* where the running synthesize call is
    si,          \* the loop index i
    run,         \* 1: the call with the concrete witness, 2: the call with None
    first,       \* the constraint system and output the first call left
    \* ---- fnv ----
    hIn,         \* inp.as_bytes(): the bytes of the signal name
    hPos,        \* how many bytes hasher.write has consumed
    hState,      \* the FnvHasher's u64 state, eight bytes, least significant first
    hOut,        \* the (u32, u32) returned, each four bytes, least significant first
    hpc,         \* where the fnv call is
    \* ---- generate_witness_from_wasm ----
    gpc,         \* where the call is
    gJson,       \* the witness_input_json argument
    gInputFile,  \* the content of <cwd>/circom_input.json, "" when absent
    gWtnsFile,   \* the content of the witness_output file, <<>> when absent
    gOps,        \* what became of each operation: "none", "ok" or "fail"
    gConsole,    \* what the call printed, in order
    gResult      \* what the call returned

wvars == <<pc, inst, holder, poisoned, calcOut, result, ran, panickedOn>>

synvars == <<r1cs, witness, cs, svars_, output, spc, si, run, first>>

fnvvars == <<hIn, hPos, hState, hOut, hpc>>

genvars == <<gpc, gJson, gInputFile, gWtnsFile, gOps, gConsole, gResult>>

vars == <<wvars, synvars, fnvvars, genvars>>

\* What a step of calculate_witness leaves alone.
WOthers == UNCHANGED <<synvars, fnvvars, genvars>>

\* What a step of synthesize leaves alone.
SOthers == UNCHANGED <<wvars, fnvvars, genvars>>

\* What a step of fnv leaves alone.
HOthers == UNCHANGED <<wvars, synvars, genvars>>

\* What a step of generate_witness_from_wasm leaves alone.
GOthers == UNCHANGED <<wvars, synvars, fnvvars>>

(***************************************************************************)
(* Part 1. calculate_witness                                                *)
(***************************************************************************)

\* Number of threads that call calculate_witness.
NumThreads == 2

Threads == 1..NumThreads

\* The Witness Calculator instances (CircomConfig values), one per circuit.
Instances == {"circuitA", "circuitB"}

\* Witness vectors the calculator may produce.
Witnesses == {<<1, 3, 9>>, <<1, 2, 4>>}

\* Errors the calculator may fail with: a cause and its diagnostic text.
CalcErrors ==
    { [code |-> "trap", text |-> "unreachable"],
      [code |-> "assert", text |-> "sanity check failed"] }

NoErr == [code |-> "", text |-> ""]

CalcOk(w) == [tag |-> "Ok", val |-> w, err |-> NoErr]

CalcErr(e) == [tag |-> "Err", val |-> <<>>, err |-> e]

NoCalc == [tag |-> "None", val |-> <<>>, err |-> NoErr]

\* Every way WitnessCalculator::calculate_witness can return.
CalcOutcomes == {CalcOk(w) : w \in Witnesses} \cup {CalcErr(e) : e \in CalcErrors}

\* Result<Vec<F>, WitnessError> values of the library.
Ok(w) == [tag |-> "Ok", val |-> w, kind |-> "", msg |-> ""]

Err(k, m) == [tag |-> "Err", val |-> <<>>, kind |-> k, msg |-> m]

NoResult == [tag |-> "None", val |-> <<>>, kind |-> "", msg |-> ""]

\* err.to_string(): the Display text of the calculator's error.
ErrToString(e) == e.text

\* A lock() that ignores poisoning (into_inner on the PoisonError).
LockResultIgnoringPoison(isPoisoned) == "Ok"

\* cfg.wtns.lock(): Err(PoisonError) on a poisoned Mutex, the guard otherwise.
LockResult(isPoisoned) == IF isPoisoned THEN "Err" ELSE "Ok"

\* .map_err(|_| MutexError)
MutexErrorValue == Err("MutexError", "")

\* An error mapping that swallows the failure into a default (empty) witness.
MapCalcErrDefault(out) == Ok(out.val)

\* .map_err(|err| WitnessCalculationError(err.to_string()))
MapCalcErr(out) ==
    IF out.tag = "Ok"
    THEN Ok(out.val)
    ELSE Err("WitnessCalculationError", ErrToString(out.err))

\* A guard that is leaked (forgotten) instead of dropped.
DropGuardLeaked(h, i) == h

\* The MutexGuard `lock` goes out of scope when calculate_witness returns,
\* whatever the calculator returned.
DropGuard(h, i) == [h EXCEPT ![i] = 0]

\* A lock() that does not wait for the Mutex to be free.
CanAcquireAlways(h, i) == TRUE

\* lock() blocks until no thread holds the Mutex.
CanAcquire(h, i) == h[i] = 0

WInit ==
    /\ pc = [t \in Threads |-> "idle"]
    /\ inst = [t \in Threads |-> CHOOSE i \in Instances : TRUE]
    /\ holder = [i \in Instances |-> 0]
    /\ poisoned = [i \in Instances |-> FALSE]
    /\ calcOut = [t \in Threads |-> NoCalc]
    /\ result = [t \in Threads |-> NoResult]
    /\ ran = [t \in Threads |-> FALSE]
    /\ panickedOn = [i \in Instances |-> FALSE]

\* A thread calls calculate_witness(&cfg, input, sanity_check) on instance i.
Call(t, i) ==
    /\ pc[t] = "idle"
    /\ pc' = [pc EXCEPT ![t] = "lock"]
    /\ inst' = [inst EXCEPT ![t] = i]
    /\ calcOut' = [calcOut EXCEPT ![t] = NoCalc]
    /\ result' = [result EXCEPT ![t] = NoResult]
    /\ ran' = [ran EXCEPT ![t] = FALSE]
    /\ UNCHANGED <<holder, poisoned, panickedOn>>
    /\ WOthers

\* cfg.wtns.lock() returns: the thread owns the Mutex, poisoned or not.
Lock(t) ==
    /\ pc[t] = "lock"
    /\ CanAcquire(holder, inst[t])
    /\ holder' = [holder EXCEPT ![inst[t]] = t]
    /\ pc' = [pc EXCEPT ![t] =
                IF LockResult(poisoned[inst[t]]) = "Ok" THEN "calc" ELSE "poisonErr"]
    /\ UNCHANGED <<inst, poisoned, calcOut, result, ran, panickedOn>>
    /\ WOthers

\* lock() gave Err(PoisonError): map_err drops it (and the guard in it) and `?`
\* returns MutexError.
MutexErrorReturn(t) ==
    /\ pc[t] = "poisonErr"
    /\ holder' = [holder EXCEPT ![inst[t]] = 0]
    /\ result' = [result EXCEPT ![t] = MutexErrorValue]
    /\ pc' = [pc EXCEPT ![t] = "done"]
    /\ UNCHANGED <<inst, poisoned, calcOut, ran, panickedOn>>
    /\ WOthers

\* witness_calculator.calculate_witness(input, sanity_check) runs to its end
\* and returns Ok(witness) or Err(error).
Calculate(t, out) ==
    /\ pc[t] = "calc"
    /\ calcOut' = [calcOut EXCEPT ![t] = out]
    /\ ran' = [ran EXCEPT ![t] = TRUE]
    /\ pc' = [pc EXCEPT ![t] = "ret"]
    /\ UNCHANGED <<inst, holder, poisoned, result, panickedOn>>
    /\ WOthers

\* The calculation panics: unwinding drops the guard, which poisons the Mutex.
Panic(t) ==
    /\ pc[t] = "calc"
    /\ ran' = [ran EXCEPT ![t] = TRUE]
    /\ holder' = [holder EXCEPT ![inst[t]] = 0]
    /\ poisoned' = [poisoned EXCEPT ![inst[t]] = TRUE]
    /\ panickedOn' = [panickedOn EXCEPT ![inst[t]] = TRUE]
    /\ pc' = [pc EXCEPT ![t] = "panicked"]
    /\ UNCHANGED <<inst, calcOut, result>>
    /\ WOthers

\* The tail expression is mapped, the guard dropped, the function returns.
Return(t) ==
    /\ pc[t] = "ret"
    /\ result' = [result EXCEPT ![t] = MapCalcErr(calcOut[t])]
    /\ holder' = DropGuard(holder, inst[t])
    /\ pc' = [pc EXCEPT ![t] = "done"]
    /\ UNCHANGED <<inst, poisoned, calcOut, ran, panickedOn>>
    /\ WOthers

\* The caller has taken the result; the thread may call again.
Consume(t) ==
    /\ pc[t] = "done"
    /\ pc' = [pc EXCEPT ![t] = "idle"]
    /\ calcOut' = [calcOut EXCEPT ![t] = NoCalc]
    /\ result' = [result EXCEPT ![t] = NoResult]
    /\ ran' = [ran EXCEPT ![t] = FALSE]
    /\ UNCHANGED <<inst, holder, poisoned, panickedOn>>
    /\ WOthers

\* The caller builds a new CircomConfig for circuit i: a fresh Mutex.  No call
\* is running on the old one (it is borrowed for the length of a call).
Reconstruct(i) ==
    /\ \A t \in Threads : inst[t] = i => pc[t] \in {"idle", "panicked"}
    /\ poisoned[i]
    /\ poisoned' = [poisoned EXCEPT ![i] = FALSE]
    /\ panickedOn' = [panickedOn EXCEPT ![i] = FALSE]
    /\ UNCHANGED <<pc, inst, holder, calcOut, result, ran>>
    /\ WOthers

WNext ==
    \/ \E t \in Threads, i \in Instances : Call(t, i)
    \/ \E t \in Threads : Lock(t)
    \/ \E t \in Threads : MutexErrorReturn(t)
    \/ \E t \in Threads, out \in CalcOutcomes : Calculate(t, out)
    \/ \E t \in Threads : Panic(t)
    \/ \E t \in Threads : Return(t)
    \/ \E t \in Threads : Consume(t)
    \/ \E i \in Instances : Reconstruct(i)

\* The calculator of instance i is running in thread t.
InFlight(t, i) == pc[t] = "calc" /\ inst[t] = i

\* Thread t is inside the part of calculate_witness that owns the guard.
HasGuard(t) == pc[t] \in {"poisonErr", "calc", "ret"}

(***************************************************************************)
(* C1: at most one calculation is in flight against one Witness Calculator  *)
(* instance at any time, and the calculator only ever runs in the thread    *)
(* that holds the instance's guard; calls on distinct instances are not     *)
(* ordered by it (C1_Witness: two calculations in flight at once, on two    *)
(* instances).                                                              *)
(***************************************************************************)
C1_OneInFlightPerInstance ==
    /\ \A i \in Instances : Cardinality({t \in Threads : InFlight(t, i)}) <= 1
    /\ \A t \in Threads : pc[t] = "calc" => holder[inst[t]] = t

C1_Witness ==
    \E t1 \in Threads, t2 \in Threads :
        /\ t1 # t2
        /\ pc[t1] = "calc" /\ pc[t2] = "calc"
        /\ inst[t1] # inst[t2]
        /\ holder[inst[t1]] = t1 /\ holder[inst[t2]] = t2

C7_CalcFailureSurfaced ==
    \A t \in Threads :
        pc[t] = "done" =>
            /\ calcOut[t].tag = "Err" =>
                  /\ result[t].tag = "Err"
                  /\ result[t].kind = "WitnessCalculationError"
                  /\ result[t].msg = calcOut[t].err.text
                  /\ result[t].val = <<>>
            /\ calcOut[t].tag = "Ok" =>
                  /\ result[t].tag = "Ok"
                  /\ result[t].val = calcOut[t].val
            /\ result[t].tag = "Ok" => (ran[t] /\ calcOut[t].tag = "Ok")
            /\ result[t].tag \in {"Ok", "Err"}

C7_Witness ==
    \E t \in Threads :
        /\ pc[t] = "done"
        /\ calcOut[t].tag = "Err"
        /\ result[t] = Err("WitnessCalculationError", "sanity check failed")

(***************************************************************************)
(* C8: once a thread has panicked holding the guard of an instance, every   *)
(* later lock() on that instance fails and the call returns MutexError      *)
(* without invoking the calculator, until the instance is reconstructed;    *)
(* the Mutex is poisoned only by such a panic, never by an error return.    *)
(***************************************************************************)
C8_PoisonedGivesMutexError ==
    [][ /\ \A t \in Threads :
             (pc[t] = "lock" /\ pc'[t] # "lock" /\ panickedOn[inst[t]])
                => pc'[t] = "poisonErr"
        /\ \A t \in Threads :
             (pc[t] # "done" /\ pc'[t] = "done" /\ panickedOn[inst[t]])
                => (result'[t] = MutexErrorValue /\ ~ran'[t])
        /\ \A t \in Threads :
             (pc[t] # "done" /\ pc'[t] = "done" /\ result'[t] = MutexErrorValue)
                => panickedOn[inst[t]]
        /\ \A i \in Instances : poisoned'[i] <=> panickedOn'[i]
      ]_vars

C8_Witness ==
    \E t \in Threads :
        /\ pc[t] = "done"
        /\ result[t] = MutexErrorValue
        /\ ~ran[t]
        /\ panickedOn[inst[t]]
        /\ \E t2 \in Threads : pc[t2] = "panicked" /\ inst[t2] = inst[t]

(***************************************************************************)
(* Part 2. synthesize                                                       *)
(***************************************************************************)

\* The field F is modelled by the integers modulo P.
P == 13

\* Largest num_inputs (the constant slot included) of the R1CS models drawn.
MaxInputs == 4

\* Largest num_aux of the R1CS models drawn.
MaxAux == 1

\* Largest number of constraints of the R1CS models drawn.
MaxCons == 1

\* Values the witness entries are drawn from.
WVals == {3, 9}

\* F::ONE
FOne == 1 % P

\* CS::one(): the constraint system's constant-one variable.
CsOne == [kind |-> "Input", idx |-> 0]

\* One (index, coeff) pair of a constraint's sparse vector.
T(index, coeff) == [index |-> index, coeff |-> coeff]

\* The index k capped to the last variable of an n-variable model.
Cap(k, n) == IF k < n THEN k ELSE n - 1

\* The constraints drawn for a model of n variables (indices 0..n-1): single
\* and two-term combinations, terms on the constant and on variables.
ConstraintPool(n) ==
    { [a |-> a, b |-> b, c |-> c] :
        a \in { <<T(Cap(1, n), 1)>>, <<T(0, 2), T(Cap(1, n), 1)>> },
        b \in { <<T(Cap(1, n), 1)>>, <<T(0, 3)>> },
        c \in { <<T(n - 1, 1)>>, <<T(n - 1, 1), T(0, 6)>> } }

\* All sequences over S of length at most n.
SeqsUpTo(S, n) == UNION { [1..k -> S] : k \in 0..n }

\* Option<Vec<F>>
None == [some |-> FALSE, w |-> <<>>]

Some(w) == [some |-> TRUE, w |-> w]

\* Witness vectors for n variables: entry 0 is the constant 1; the vectors of
\* length n - 1 are too short for the model.
WitnessVectors(n) ==
    { w \in [1..n -> WVals \cup {1}] : w[1] = 1 /\ \A k \in 2..n : w[k] \in WVals }
    \cup (IF n >= 2
          THEN { w \in [1..(n - 1) -> WVals \cup {1}] :
                    w[1] = 1 /\ \A k \in 2..(n - 1) : w[k] \in WVals }
          ELSE {})

\* A constraint system nothing was allocated in yet.
EmptyCs == [aux |-> <<>>, cons |-> <<>>]

\* A setup-mode default of zero instead of one.
PublicValueZeroDefault(wit, i) == IF ~wit.some THEN 0 ELSE wit.w[i + 1]

\* match witness { None => F::ONE, Some(w) => w[i] }   (w is 0-based)
PublicValue(wit, i) == IF ~wit.some THEN FOne ELSE wit.w[i + 1]

\* An aux signal read one slot early in the witness.
AuxValueShifted(wit, i, numInputs) == IF ~wit.some THEN FOne ELSE wit.w[i + numInputs]

\* match witness { None => F::ONE, Some(w) => w[i + r1cs.num_inputs] }
AuxValue(wit, i, numInputs) == IF ~wit.some THEN FOne ELSE wit.w[i + numInputs + 1]

\* w[idx] is out of bounds: the index expression panics.
IndexPanics(wit, idx) == wit.some /\ idx >= Len(wit.w)

\* format!("public_{}", i) / format!("aux_{}", i)
NameOf(prefix, i) == prefix \o ToString(i)

\* cs.alloc: the new variable is the next Aux index of the constraint system.
NextVariable(c) == [kind |-> "Aux", idx |-> Len(c.aux)]

\* AllocatedNum::alloc(cs.namespace(|| name), || Ok(f)): the value closure
\* is always Ok, so the allocation does not fail.
AllocIn(c, name, f) == [c EXCEPT !.aux = Append(@, [name |-> name, value |-> f])]

\* Slicing that returns the last num_pub_out variables instead of the first.
PublicOutputLast(vs, npo) ==
    IF npo = 0 THEN <<>>
    ELSE IF npo = 1 THEN <<vs[Len(vs)]>>
    ELSE SubSeq(vs, 1, npo - 1)

\* Slicing made uniform: the first num_pub_out variables.
PublicOutputUniform(vs, npo) == SubSeq(vs, 1, npo)

\* match r1cs.num_pub_out { 0 => vec![], 1 => vec![vars[0].clone()],
\*                          _ => vars[0..num_pub_out - 1].to_vec() }
PublicOutput(vs, npo) ==
    IF npo = 0 THEN <<>>
    ELSE IF npo = 1 THEN <<vs[1]>>
    ELSE SubSeq(vs, 1, npo - 1)

\* The output expression indexes past the end of vars.
OutputPanics(vs, npo) ==
    \/ npo = 1 /\ Len(vs) = 0
    \/ npo > 1 /\ npo - 1 > Len(vs)

\* The term a pair of lc_data adds: vars[index - 1] for index > 0, else one.
LcTerm(t, vs) ==
    [coeff |-> t.coeff,
     var |-> IF t.index > 0 THEN vs[t.index].variable ELSE CsOne]

\* make_lc: the fold of lc_data into a LinearCombination, in order.
MakeLc(lcData, vs) == [k \in 1..Len(lcData) |-> LcTerm(lcData[k], vs)]

\* make_lc indexes past the end of vars.
LcPanics(lcData, vs) == \E k \in 1..Len(lcData) : lcData[k].index > Len(vs)

\* cs.enforce(|| format!("constraint {}", i), a, b, c)
EnforceIn(c, i, con, vs) ==
    [c EXCEPT !.cons = Append(@,
        [name |-> "constraint " \o ToString(i),
         a |-> MakeLc(con.a, vs), b |-> MakeLc(con.b, vs), c |-> MakeLc(con.c, vs)])]

SInit ==
    /\ \E ni \in 1..MaxInputs, na \in 0..MaxAux :
         \E npo \in 0..(ni - 1), cons \in SeqsUpTo(ConstraintPool(ni + na), MaxCons) :
            /\ r1cs = [num_inputs |-> ni, num_aux |-> na, num_pub_out |-> npo,
                       constraints |-> cons]
            /\ \E w \in WitnessVectors(ni + na) : witness = Some(w)
    /\ cs = EmptyCs
    /\ svars_ = <<>>
    /\ output = <<>>
    /\ spc = "pub"
    /\ si = 1
    /\ run = 1
    /\ first = [cs |-> EmptyCs, output |-> <<>>]

\* One iteration of `for i in 1..r1cs.num_inputs`.
AllocPublic ==
    /\ spc = "pub"
    /\ si < r1cs.num_inputs
    /\ ~IndexPanics(witness, si)
    /\ LET f == PublicValue(witness, si)
           v == [value |-> f, variable |-> NextVariable(cs)]
       IN /\ cs' = AllocIn(cs, NameOf("public_", si), f)
          /\ svars_' = Append(svars_, v)
    /\ si' = si + 1
    /\ UNCHANGED <<r1cs, witness, output, spc, run, first>>
    /\ SOthers

\* The public loop ends.
PublicDone ==
    /\ spc = "pub"
    /\ si >= r1cs.num_inputs
    /\ spc' = "aux"
    /\ si' = 0
    /\ UNCHANGED <<r1cs, witness, cs, svars_, output, run, first>>
    /\ SOthers

\* One iteration of `for i in 0..r1cs.num_aux`.
AllocAux ==
    /\ spc = "aux"
    /\ si < r1cs.num_aux
    /\ ~IndexPanics(witness, si + r1cs.num_inputs)
    /\ LET f == AuxValue(witness, si, r1cs.num_inputs)
           v == [value |-> f, variable |-> NextVariable(cs)]
       IN /\ cs' = AllocIn(cs, NameOf("aux_", si), f)
          /\ svars_' = Append(svars_, v)
    /\ si' = si + 1
    /\ UNCHANGED <<r1cs, witness, output, spc, run, first>>
    /\ SOthers

\* The aux loop ends and `output` is computed.
TakeOutput ==
    /\ spc = "aux"
    /\ si >= r1cs.num_aux
    /\ ~OutputPanics(svars_, r1cs.num_pub_out)
    /\ output' = PublicOutput(svars_, r1cs.num_pub_out)
    /\ spc' = "enforce"
    /\ si' = 0
    /\ UNCHANGED <<r1cs, witness, cs, svars_, run, first>>
    /\ SOthers

\* One iteration of `for (i, constraint) in r1cs.constraints`.
Enforce ==
    /\ spc = "enforce"
    /\ si < Len(r1cs.constraints)
    /\ LET con == r1cs.constraints[si + 1]
       IN /\ ~(LcPanics(con.a, svars_) \/ LcPanics(con.b, svars_) \/ LcPanics(con.c, svars_))
          /\ cs' = EnforceIn(cs, si, con, svars_)
    /\ si' = si + 1
    /\ UNCHANGED <<r1cs, witness, svars_, output, spc, run, first>>
    /\ SOthers

\* Ok(output)
SynthReturn ==
    /\ spc = "enforce"
    /\ si >= Len(r1cs.constraints)
    /\ spc' = "done"
    /\ UNCHANGED <<r1cs, witness, cs, svars_, output, si, run, first>>
    /\ SOthers

\* An index expression is out of bounds: the call panics where it stands.
SynthPanic ==
    /\ \/ spc = "pub" /\ si < r1cs.num_inputs /\ IndexPanics(witness, si)
       \/ spc = "aux" /\ si < r1cs.num_aux /\ IndexPanics(witness, si + r1cs.num_inputs)
       \/ spc = "aux" /\ si >= r1cs.num_aux /\ OutputPanics(svars_, r1cs.num_pub_out)
       \/ /\ spc = "enforce" /\ si < Len(r1cs.constraints)
          /\ LET con == r1cs.constraints[si + 1]
             IN LcPanics(con.a, svars_) \/ LcPanics(con.b, svars_) \/ LcPanics(con.c, svars_)
    /\ spc' = "panic"
    /\ UNCHANGED <<r1cs, witness, cs, svars_, output, si, run, first>>
    /\ SOthers

\* The caller synthesizes the same R1CS again, in setup mode (witness = None),
\* into a fresh constraint system.
SetupRun ==
    /\ spc = "done"
    /\ run = 1
    /\ first' = [cs |-> cs, output |-> output]
    /\ run' = 2
    /\ witness' = None
    /\ cs' = EmptyCs
    /\ svars_' = <<>>
    /\ output' = <<>>
    /\ spc' = "pub"
    /\ si' = 1
    /\ UNCHANGED r1cs
    /\ SOthers

SNext ==
    \/ AllocPublic
    \/ PublicDone
    \/ AllocAux
    \/ TakeOutput
    \/ Enforce
    \/ SynthReturn
    \/ SynthPanic
    \/ SetupRun

\* ---- what the claims about synthesize are stated with ----

\* The value the constraint system assigns to a variable.
VarValue(v, c) == IF v.kind = "Input" THEN FOne ELSE c.aux[v.idx + 1].value

\* The name a variable was allocated under.
VarName(v, c) == IF v.kind = "Input" THEN "one" ELSE c.aux[v.idx + 1].name

RECURSIVE EvalFrom(_, _, _)
\* The value of a linear combination from its k-th term on, in field arithmetic.
EvalFrom(lc, c, k) ==
    IF k > Len(lc) THEN 0
    ELSE ((lc[k].coeff * VarValue(lc[k].var, c)) + EvalFrom(lc, c, k + 1)) % P

\* The value of a linear combination under the constraint system's assignment.
EvalLc(lc, c) == EvalFrom(lc, c, 1)

RECURSIVE DotFrom(_, _, _)
\* The sparse vector lcData times z from its k-th pair on (z indexed from 0).
DotFrom(lcData, z, k) ==
    IF k > Len(lcData) THEN 0
    ELSE ((lcData[k].coeff * z[lcData[k].index + 1]) + DotFrom(lcData, z, k + 1)) % P

\* A.z for a sparse vector A of the R1CS.
Dot(lcData, z) == DotFrom(lcData, z, 1)

\* z (with z[0] = 1) satisfies A.z * B.z = C.z for every triple of the R1CS.
R1csSatisfiedBy(r, z) ==
    /\ Len(z) = r.num_inputs + r.num_aux
    /\ z[1] = 1
    /\ \A i \in 1..Len(r.constraints) :
         (Dot(r.constraints[i].a, z) * Dot(r.constraints[i].b, z)) % P
            = Dot(r.constraints[i].c, z)

\* Every enforced constraint holds under the constraint system's assignment.
CsSatisfied(c) ==
    \A i \in 1..Len(c.cons) :
        (EvalLc(c.cons[i].a, c) * EvalLc(c.cons[i].b, c)) % P = EvalLc(c.cons[i].c, c)

\* The number of variables a synthesize call allocates.
NumAllocated(r) == (r.num_inputs - 1) + r.num_aux

(***************************************************************************)
(* C3: for a witness z that satisfies the R1CS, synthesize(cs, r1cs,        *)
(* Some(z)) leaves the constraint system satisfied: the variable used for   *)
(* term index k > 0 is the one allocated with value z[k], index 0 is the    *)
(* constant one, and enforced constraint i evaluates to A_i.z * B_i.z =     *)
(* C_i.z.                                                                   *)
(***************************************************************************)
C3_SatisfyingWitnessSatisfiesCs ==
    (spc = "done" /\ run = 1 /\ R1csSatisfiedBy(r1cs, witness.w)) =>
        /\ Len(svars_) = NumAllocated(r1cs)
        /\ \A k \in 1..NumAllocated(r1cs) :
             /\ svars_[k].value = witness.w[k + 1]
             /\ VarValue(svars_[k].variable, cs) = witness.w[k + 1]
        /\ Len(cs.cons) = Len(r1cs.constraints)
        /\ \A i \in 1..Len(r1cs.constraints) :
             /\ EvalLc(cs.cons[i].a, cs) = Dot(r1cs.constraints[i].a, witness.w)
             /\ EvalLc(cs.cons[i].b, cs) = Dot(r1cs.constraints[i].b, witness.w)
             /\ EvalLc(cs.cons[i].c, cs) = Dot(r1cs.constraints[i].c, witness.w)
        /\ CsSatisfied(cs)

C3_Witness ==
    /\ spc = "done" /\ run = 1
    /\ R1csSatisfiedBy(r1cs, witness.w)
    /\ r1cs.num_aux >= 1 /\ r1cs.num_inputs >= 2
    /\ Len(cs.cons) >= 1
    /\ \E k \in 1..Len(r1cs.constraints[1].a) : r1cs.constraints[1].a[k].index = 0
    /\ \E k \in 1..Len(r1cs.constraints[1].a) : r1cs.constraints[1].a[k].index > 0
    /\ CsSatisfied(cs)

(***************************************************************************)
(* C4: synthesize with witness = None allocates the same variables as the   *)
(* call with a concrete witness (the same count (num_inputs - 1) + num_aux, *)
(* the same names in the same order, public_1.. then aux_0..) and enforces  *)
(* the same constraints; only the values differ, all one in the None case.  *)
(***************************************************************************)
C4_SetupModeSameShape ==
    (spc = "done" /\ run = 2) =>
        /\ Len(cs.aux) = NumAllocated(r1cs)
        /\ Len(first.cs.aux) = NumAllocated(r1cs)
        /\ \A k \in 1..NumAllocated(r1cs) :
             /\ cs.aux[k].name = first.cs.aux[k].name
             /\ cs.aux[k].value = 1
        /\ \A k \in 1..(r1cs.num_inputs - 1) :
             cs.aux[k].name = "public_" \o ToString(k)
        /\ \A k \in 0..(r1cs.num_aux - 1) :
             cs.aux[r1cs.num_inputs + k].name = "aux_" \o ToString(k)
        /\ cs.cons = first.cs.cons
        /\ Len(output) = Len(first.output)
        /\ \A k \in 1..Len(output) : output[k].variable = first.output[k].variable

C4_Witness ==
    /\ spc = "done" /\ run = 2
    /\ r1cs.num_inputs >= 3 /\ r1cs.num_aux >= 1
    /\ Len(cs.cons) >= 1
    /\ \E k \in 1..Len(first.cs.aux) : first.cs.aux[k].value # 1
    /\ \A k \in 1..Len(cs.aux) : cs.aux[k].value = 1

\* The number of outputs the slicing rule returns for num_pub_out = npo.
OutputCount(npo) == IF npo = 0 THEN 0 ELSE IF npo = 1 THEN 1 ELSE npo - 1

(***************************************************************************)
(* C5: the public outputs returned are: none when num_pub_out = 0; the      *)
(* first allocated public variable when num_pub_out = 1; otherwise the      *)
(* first num_pub_out - 1 allocated public variables, in allocation order.   *)
(***************************************************************************)
C5_OutputSlicing ==
    (spc \in {"enforce", "done"}) =>
        /\ Len(output) = OutputCount(r1cs.num_pub_out)
        /\ \A k \in 1..Len(output) :
             /\ output[k] = svars_[k]
             /\ output[k].variable.kind = "Aux"
             /\ output[k].variable.idx = k - 1
             /\ VarName(output[k].variable, cs) = "public_" \o ToString(k)

C5_Witness ==
    /\ spc = "done"
    /\ r1cs.num_pub_out = 3
    /\ Len(output) = 2
    /\ VarName(output[1].variable, cs) = "public_1"
    /\ VarName(output[2].variable, cs) = "public_2"

\* The scenario: num_inputs = 2 (constant + x), num_aux = 1 (y), the one
\* constraint x * x = y, witness [1, 3, 9], num_pub_out = 1, after the call.
C6_Scenario ==
    /\ r1cs = [num_inputs |-> 2, num_aux |-> 1, num_pub_out |-> 1,
               constraints |-> << [a |-> <<T(1, 1)>>, b |-> <<T(1, 1)>>,
                                   c |-> <<T(2, 1)>>] >>]
    /\ run = 1
    /\ witness = Some(<<1, 3, 9>>)
    /\ spc = "done"

(***************************************************************************)
(* C6 as stated: in the scenario the single output variable has value 9.    *)
(***************************************************************************)
C6_OutputIsNine ==
    C6_Scenario => (Len(output) = 1 /\ output[1].value = 9)

(***************************************************************************)
(* C6 as amended: in the scenario the single output variable returned is    *)
(* the first allocated public variable public_1, whose value is witness[1]  *)
(* = 3 (x); the variable of value 9 (y) is aux_0 and is not returned.       *)
(***************************************************************************)
C6_OutputIsFirstPublic ==
    C6_Scenario =>
        /\ Len(output) = 1
        /\ output[1].value = 3
        /\ VarName(output[1].variable, cs) = "public_1"
        /\ VarValue(output[1].variable, cs) = 3
        /\ Len(svars_) = 2
        /\ svars_[2].value = 9
        /\ VarName(svars_[2].variable, cs) = "aux_0"
        /\ svars_[2] # output[1]

C6_Witness == C6_Scenario /\ CsSatisfied(cs) /\ Len(cs.cons) = 1

(***************************************************************************)
(* Part 3. fnv: the signal-name hash                                        *)
(*                                                                         *)
(* A u64 is a sequence of eight bytes and a u32 of four, least significant  *)
(* byte first, so that no intermediate value leaves the range of 32-bit     *)
(* integers and the arithmetic is exactly that modulo 2^64.                 *)
(***************************************************************************)

\* Longest signal name drawn, in characters.
MaxNameLen == 3

\* The characters names are drawn from, as their UTF-8 bytes: a, n, _, e-acute.
NameChars == { <<97>>, <<110>>, <<95>>, <<195, 169>> }

RECURSIVE Flatten(_)
\* The bytes of a string given as a sequence of characters.
Flatten(cs_) == IF cs_ = <<>> THEN <<>> ELSE Head(cs_) \o Flatten(Tail(cs_))

\* inp.as_bytes() for every name of at most MaxNameLen characters.
NameBytes == { Flatten(n) : n \in SeqsUpTo(NameChars, MaxNameLen) }

\* FnvHasher::default(): the offset basis 0xcbf29ce484222325.
FnvOffsetBasis == <<37, 35, 34, 132, 228, 156, 242, 203>>

\* The FNV prime 0x00000100000001b3.
FnvPrime == <<179, 1, 0, 0, 0, 1, 0, 0>>

RECURSIVE Xor8(_, _, _)
\* a ^ b on the low n bits.
Xor8(a, b, n) ==
    IF n = 0 THEN 0
    ELSE ((a + b) % 2) + 2 * Xor8(a \div 2, b \div 2, n - 1)

\* hash ^ (byte as u64): only the least significant byte changes.
XorByte(h, byte) == [h EXCEPT ![1] = Xor8(h[1], byte, 8)]

\* Column k (1-based) of the schoolbook product of two eight-byte numbers.
MulColumn(x, y, k) ==
    LET RECURSIVE Sum(_)
        Sum(i) == IF i > k THEN 0 ELSE x[i] * y[k + 1 - i] + Sum(i + 1)
    IN Sum(1)

RECURSIVE MulCarry(_, _, _)
\* The carry into column k of the product.
MulCarry(x, y, k) ==
    IF k = 1 THEN 0
    ELSE (MulColumn(x, y, k - 1) + MulCarry(x, y, k - 1)) \div 256

\* x.wrapping_mul(y): the low eight bytes of the product.
WrappingMul(x, y) ==
    [k \in 1..8 |-> (MulColumn(x, y, k) + MulCarry(x, y, k)) % 256]

\* FNV-1 instead of FNV-1a: multiply first, then xor.
FnvStepMulThenXor(h, byte) == XorByte(WrappingMul(h, FnvPrime), byte)

\* One byte of FnvHasher::write: hash ^= byte; hash = hash.wrapping_mul(PRIME).
FnvStep(h, byte) == WrappingMul(XorByte(h, byte), FnvPrime)

\* h >> 32
ShiftRight32(h) == <<h[5], h[6], h[7], h[8], 0, 0, 0, 0>>

\* x as u32: the low four bytes.
AsU32(h) == SubSeq(h, 1, 4)

\* ((h >> 32) as u32, h as u32)
FnvSplit(h) == <<AsU32(ShiftRight32(h)), AsU32(h)>>

HIdle ==
    /\ hIn = <<>>
    /\ hPos = 0
    /\ hState = <<0, 0, 0, 0, 0, 0, 0, 0>>
    /\ hOut = <<>>
    /\ hpc = "off"

HInit ==
    /\ hIn \in NameBytes
    /\ hPos = 0
    /\ hState = <<0, 0, 0, 0, 0, 0, 0, 0>>
    /\ hOut = <<>>
    /\ hpc = "new"

\* let mut hasher = FnvHasher::default();
FnvDefault ==
    /\ hpc = "new"
    /\ hState' = FnvOffsetBasis
    /\ hpc' = "write"
    /\ UNCHANGED <<hIn, hPos, hOut>>
    /\ HOthers

\* hasher.write(inp.as_bytes()): one byte of the loop.
FnvWrite ==
    /\ hpc = "write"
    /\ hPos < Len(hIn)
    /\ hState' = FnvStep(hState, hIn[hPos + 1])
    /\ hPos' = hPos + 1
    /\ UNCHANGED <<hIn, hOut, hpc>>
    /\ HOthers

\* let h = hasher.finish(); ((h >> 32) as u32, h as u32)
FnvFinish ==
    /\ hpc = "write"
    /\ hPos = Len(hIn)
    /\ hOut' = FnvSplit(hState)
    /\ hpc' = "done"
    /\ UNCHANGED <<hIn, hPos, hState>>
    /\ HOthers

HNext ==
    \/ FnvDefault
    \/ FnvWrite
    \/ FnvFinish

\* ---- what the claim about fnv is stated with ----

\* A 64-bit number as four 16-bit words, least significant first.
Words16(h) == [k \in 1..4 |-> h[2 * k - 1] + 256 * h[2 * k]]

RECURSIVE Normalize16(_, _, _)
\* Carry propagation over four 16-bit columns, modulo 2^64.
Normalize16(cols, k, carry) ==
    IF k > 4 THEN <<>>
    ELSE <<(cols[k] + carry) % 65536>>
            \o Normalize16(cols, k + 1, (cols[k] + carry) \div 65536)

\* x * 2^s for s < 16, as unnormalised columns.
ShiftBits(x, s) == [k \in 1..4 |-> x[k] * (2 ^ s)]

\* x * 2^(16 * n), as columns.
ShiftWords(x, n) == [k \in 1..4 |-> IF k > n THEN x[k - n] ELSE 0]

\* x * 0x100000001b3 mod 2^64 by shifts and adds:
\* 0x1b3 = 2^8 + 2^7 + 2^5 + 2^4 + 2^1 + 2^0, and 2^40 = 2^32 * 2^8.
RefMulPrime(x) ==
    LET lowPart == [k \in 1..4 |->
                      x[k] * (2 ^ 8 + 2 ^ 7 + 2 ^ 5 + 2 ^ 4 + 2 ^ 1 + 1)]
        highPart == ShiftWords(Normalize16(ShiftBits(x, 8), 1, 0), 2)
    IN Normalize16([k \in 1..4 |-> lowPart[k] + highPart[k]], 1, 0)

\* a xor b on bytes, by the sets of their one bits.
RefXor8(a, b) ==
    LET bitsOf(v) == { i \in 0..7 : (v \div (2 ^ i)) % 2 = 1 }
        d == (bitsOf(a) \ bitsOf(b)) \cup (bitsOf(b) \ bitsOf(a))
        RECURSIVE Val(_)
        Val(S) == IF S = {} THEN 0
                  ELSE LET i == CHOOSE j \in S : TRUE IN 2 ^ i + Val(S \ {i})
    IN Val(d)

RECURSIVE RefFnv1a(_, _, _)
\* The 64-bit FNV-1a hash of bytes[k..], from state x (16-bit words).
RefFnv1a(bytes, k, x) ==
    IF k > Len(bytes) THEN x
    ELSE LET lo == x[1] % 256
             x1 == [x EXCEPT ![1] = (x[1] - lo) + RefXor8(lo, bytes[k])]
         IN RefFnv1a(bytes, k + 1, RefMulPrime(x1))

\* The reference hash of a name: offset basis 0xcbf2 9ce4 8422 2325.
RefHash(bytes) == RefFnv1a(bytes, 1, <<8997, 33826, 40164, 52210>>)

(***************************************************************************)
(* C9: fnv(name) returns (high, low) where h is the 64-bit FNV-1a hash of   *)
(* the name's bytes (arithmetic modulo 2^64), high = h >> 32 and low =      *)
(* h mod 2^32, so high * 2^32 + low = h; the pair is a function of the      *)
(* bytes alone ("a" gives af63dc4c 8601ec8c, "" the offset basis).          *)
(***************************************************************************)
C9_FnvIsFnv1aSplit ==
    hpc = "done" =>
        /\ Len(hOut) = 2
        /\ Len(hOut[1]) = 4 /\ Len(hOut[2]) = 4
        /\ \A k \in 1..4 : hOut[1][k] \in 0..255 /\ hOut[2][k] \in 0..255
        /\ Words16(hOut[2] \o hOut[1]) = RefHash(hIn)
        /\ hOut[2] \o hOut[1] = hState
        /\ hIn = <<>> => hOut = << <<228, 156, 242, 203>>, <<37, 35, 34, 132>> >>
        /\ hIn = <<97>> => hOut = << <<76, 220, 99, 175>>, <<140, 236, 1, 134>> >>
        /\ hIn = <<195, 169>> => hOut = << <<7, 23, 194, 10>>, <<1, 30, 24, 183>> >>

C9_Witness ==
    /\ hpc = "done"
    /\ hIn = <<97, 110, 195, 169>>
    /\ Words16(hOut[2] \o hOut[1]) = RefHash(hIn)
    /\ hOut[1] # hOut[2]

(***************************************************************************)
(* Part 4. generate_witness_from_wasm                                       *)
(***************************************************************************)

\* The JSON inputs drawn.
JsonInputs == {"{\"x\": 3}", "{\"x\": 2}"}

\* The witness the circuit's generator writes for an input.
WitnessOfInput(json) == IF json = "{\"x\": 3}" THEN <<1, 3, 9>> ELSE <<1, 2, 4>>

\* A witness file an earlier run left at witness_output.
StaleWitness == <<1, 5, 12>>

\* No operation has run yet.
NoOps == [cwd |-> "none", write |-> "none", node |-> "none",
          remove |-> "none", load |-> "none"]

GIdle ==
    /\ gpc = "off"
    /\ gJson = ""
    /\ gInputFile = ""
    /\ gWtnsFile = <<>>
    /\ gOps = NoOps
    /\ gConsole = <<>>
    /\ gResult = NoResult

GInit ==
    /\ gpc = "cwd"
    /\ gJson \in JsonInputs
    /\ gInputFile \in {"", "old"}
    /\ gWtnsFile \in {<<>>, StaleWitness}
    /\ gOps = NoOps
    /\ gConsole = <<>>
    /\ gResult = NoResult

\* current_dir().map_err(|err| FileSystemError(err.to_string()))?
CurrentDir(ok) ==
    /\ gpc = "cwd"
    /\ gOps' = [gOps EXCEPT !.cwd = IF ok THEN "ok" ELSE "fail"]
    /\ IF ok
       THEN /\ gpc' = "write"
            /\ UNCHANGED gResult
       ELSE /\ gpc' = "done"
            /\ gResult' = Err("FileSystemError", "cwd")
    /\ UNCHANGED <<gJson, gInputFile, gWtnsFile, gConsole>>
    /\ GOthers

\* fs::write(&witness_generator_input, witness_input_json).map_err(..)?
WriteInput(ok) ==
    /\ gpc = "write"
    /\ gOps' = [gOps EXCEPT !.write = IF ok THEN "ok" ELSE "fail"]
    /\ IF ok
       THEN /\ gInputFile' = gJson
            /\ gpc' = "node"
            /\ UNCHANGED gResult
       ELSE /\ gpc' = "done"
            /\ gResult' = Err("FileSystemError", "write")
            /\ UNCHANGED gInputFile
    /\ UNCHANGED <<gJson, gWtnsFile, gConsole>>
    /\ GOthers

\* Command::new("node")...output() cannot start the process:
\* .map_err(|err| FailedExecutionError(err.to_string()))?
NodeSpawnFails ==
    /\ gpc = "node"
    /\ gOps' = [gOps EXCEPT !.node = "fail"]
    /\ gpc' = "done"
    /\ gResult' = Err("FailedExecutionError", "spawn")
    /\ UNCHANGED <<gJson, gInputFile, gWtnsFile, gConsole>>
    /\ GOthers

\* node runs to its end.  With exit status 0 it has written the witness file;
\* with another status it has not.  output() is Ok in both cases; what node
\* printed is empty, UTF-8 text (echoed with println!), or not UTF-8.
NodeRuns(success, printed) ==
    /\ gpc = "node"
    /\ gOps' = [gOps EXCEPT !.node = IF success THEN "ok" ELSE "fail"]
    /\ gWtnsFile' = IF success THEN WitnessOfInput(gInputFile) ELSE gWtnsFile
    /\ gpc' = IF printed = "binary" THEN "utf8panic" ELSE "remove"
    /\ gConsole' = IF printed = "text" THEN <<"stdout", "stderr">> ELSE gConsole
    /\ UNCHANGED <<gJson, gInputFile, gResult>>
    /\ GOthers

\* std::str::from_utf8(..).unwrap() on output that is not UTF-8.
PrintPanics ==
    /\ gpc = "utf8panic"
    /\ gpc' = "panicked"
    /\ UNCHANGED <<gJson, gInputFile, gWtnsFile, gOps, gConsole, gResult>>
    /\ GOthers

\* let res = fs::remove_file(witness_generator_input); a failure only warns.
RemoveInput(ok) ==
    /\ gpc = "remove"
    /\ gOps' = [gOps EXCEPT !.remove = IF ok THEN "ok" ELSE "fail"]
    /\ gInputFile' = IF ok THEN "" ELSE gInputFile
    /\ gConsole' = IF ok THEN gConsole ELSE Append(gConsole, "warning")
    /\ gpc' = "load"
    /\ UNCHANGED <<gJson, gWtnsFile, gResult>>
    /\ GOthers

\* load_witness_from_file(witness_output).map_err(|err| LoadWitnessError(..)):
\* the file is read and parsed, or the read fails (always, when it is absent).
LoadWitness(ok) ==
    /\ gpc = "load"
    /\ ok => gWtnsFile # <<>>
    /\ gOps' = [gOps EXCEPT !.load = IF ok THEN "ok" ELSE "fail"]
    /\ gResult' = IF ok THEN Ok(gWtnsFile) ELSE Err("LoadWitnessError", "read")
    /\ gpc' = "done"
    /\ UNCHANGED <<gJson, gInputFile, gWtnsFile, gConsole>>
    /\ GOthers

GNext ==
    \/ \E ok \in BOOLEAN : CurrentDir(ok)
    \/ \E ok \in BOOLEAN : WriteInput(ok)
    \/ NodeSpawnFails
    \/ \E success \in BOOLEAN, printed \in {"empty", "text", "binary"} :
          NodeRuns(success, printed)
    \/ PrintPanics
    \/ \E ok \in BOOLEAN : RemoveInput(ok)
    \/ \E ok \in BOOLEAN : LoadWitness(ok)

(***************************************************************************)
(* C10: generate_witness_from_wasm returns an error if any of its file      *)
(* operations fails (writing circom_input.json, removing it, reading the    *)
(* witness file) or if the execution by node fails; it returns a witness    *)
(* only when all of them succeeded.                                         *)
(***************************************************************************)
C10_AnyFailureIsAnError ==
    gpc = "done" =>
        /\ (\/ gOps.write = "fail"
            \/ gOps.remove = "fail"
            \/ gOps.load = "fail"
            \/ gOps.node = "fail") => gResult.tag = "Err"
        /\ gResult.tag = "Ok" =>
              /\ gOps.write = "ok"
              /\ gOps.node = "ok"
              /\ gOps.remove = "ok"
              /\ gOps.load = "ok"

\* No synthesize call is made.
SIdle ==
    /\ r1cs = [num_inputs |-> 1, num_aux |-> 0, num_pub_out |-> 0, constraints |-> <<>>]
    /\ witness = None
    /\ cs = EmptyCs
    /\ svars_ = <<>>
    /\ output = <<>>
    /\ spc = "off"
    /\ si = 0
    /\ run = 0
    /\ first = [cs |-> EmptyCs, output |-> <<>>]

Init == WInit /\ SIdle /\ HIdle /\ GIdle

Next == WNext

Spec == Init /\ [][Next]_vars

\* A thread inside calculate_witness keeps running, a calculation ends (by a
\* return or a panic), and a thread blocked in lock() is not starved: it gets
\* the Mutex if the Mutex is free again and again.
WFairness ==
    \A t \in Threads :
        /\ SF_vars(Lock(t))
        /\ WF_vars(MutexErrorReturn(t))
        /\ WF_vars((\E out \in CalcOutcomes : Calculate(t, out)) \/ Panic(t))
        /\ WF_vars(Return(t))

FairSpec == Init /\ [][Next]_vars /\ WFairness

\* No thread calls calculate_witness.
InitSynth == SInit /\ WInit /\ HIdle /\ GIdle

SpecSynth == InitSynth /\ [][SNext]_vars

\* Only fnv runs.
InitFnv == HInit /\ WInit /\ SIdle /\ GIdle

SpecFnv == InitFnv /\ [][HNext]_vars

\* Only generate_witness_from_wasm runs.
InitWasm == GInit /\ WInit /\ SIdle /\ HIdle

SpecWasm == InitWasm /\ [][GNext]_vars

====
